---- MODULE Spec2Model ----
(***************************************************************************)
(* Model of fx.py, the daily FX-rate ETL job: init_db, fetch_rates,        *)
(* save_rates and main, with the SQLite table fx_rates, the log file and   *)
(* standard output as state.                                               *)
(*                                                                         *)
(* Currency codes are strings over a two-letter alphabet, one letter per   *)
(* code (the real ones have three), so a pair key has two letters.         *)
(***************************************************************************)
EXTENDS Bags, FiniteSets, Integers, Sequences, TLC

VARIABLES
    tableExists,  \* fx.db holds the table fx_rates
    table,        \* the rows of fx_rates, a bag of [date, base, symbol, rate]
    log,          \* entries appended to fx.log (by the current run of main, or
                  \* by the direct calls made so far)
    out,          \* lines printed on standard output by the current run
    pc,           \* position of main: "idle" when main is not running
    run,          \* the current run of main: its environment and what it met
    obs,          \* the observed direct save_rates call (NoCall before)
    calls         \* completed direct calls (before the observed one); runs

vars == <<tableExists, table, log, out, pc, run, obs, calls>>

\* ---------------------------------------------------------------- bounds
MaxQuotes == 2   \* entries of one quotes mapping
MaxCalls == 3    \* direct calls that return, the repeated one apart
MaxRuns == 1     \* runs of main

\* ---------------------------------------------------------------- inputs
Letters == {"E", "U"}
Codes(n) == [1..n -> Letters]
Bases == Codes(1)
Pairs == Codes(2)
Dates == {1, 2}
\* a JSON rate: a number, or null
RawRates == {[null |-> FALSE, v |-> 1], [null |-> FALSE, v |-> 2],
             [null |-> TRUE, v |-> 0]}
Entries == [pair : Pairs, rate : RawRates]

\* dict items in insertion order: sequences of entries with distinct keys
ItemSeqs ==
    UNION {{s \in [1..n -> Entries] :
              \A i, j \in 1..n : i # j => s[i].pair # s[j].pair} : n \in 0..MaxQuotes}

\* the `quotes` value: a mapping, or a value with no .items()
QuoteVals == {[isMap |-> TRUE, items |-> s] : s \in ItemSeqs}
                 \cup {[isMap |-> FALSE, items |-> <<>>]}

\* ---------------------------------------------------------------- helpers
\* str.replace(old, ""): drop every non-overlapping occurrence of old,
\* scanning left to right
RECURSIVE Replace(_, _)
Replace(s, old) ==
    IF old = <<>> \/ Len(s) < Len(old) THEN s
    ELSE IF SubSeq(s, 1, Len(old)) = old
         THEN Replace(SubSeq(s, Len(old) + 1, Len(s)), old)
         ELSE <<Head(s)>> \o Replace(Tail(s), old)

\* float(rate): the number's value; raises TypeError on None
FloatRaises(rate) == rate.null
Float(rate) == rate.v

\* fx.py:79-83, the rows save_rates builds, one per item, in order
BuildRows(base, items, date) ==
    [i \in 1..Len(items) |->
        [date |-> date, base |-> base,
         symbol |-> Replace(items[i].pair, base),
         rate |-> Float(items[i].rate)]]

\* a mutant of Conflicts: a table declared without the primary key
NoKey(t, row) == FALSE

\* PRIMARY KEY (date, symbol): the row conflicts with a stored one
Conflicts(t, row) ==
    \E r \in BagToSet(t) : r.date = row.date /\ r.symbol = row.symbol

\* a mutant of InsertOrIgnore: INSERT OR REPLACE, the conflicting rows deleted
InsertOrReplace(t, row) ==
    LET kept == {r \in BagToSet(t) : ~(r.date = row.date /\ r.symbol = row.symbol)}
    IN [r \in kept \cup {row} |-> IF r = row THEN 1 ELSE t[r]]

\* a mutant of InsertOrIgnore: the row added whatever the table holds
InsertPlain(t, row) == t (+) SetToBag({row})

\* INSERT OR IGNORE of one row
InsertOrIgnore(t, row) ==
    IF Conflicts(t, row) THEN t ELSE t (+) SetToBag({row})

\* executemany: the statement run for each row in turn
RECURSIVE ExecuteMany(_, _)
ExecuteMany(t, rows) ==
    IF rows = <<>> THEN t
    ELSE ExecuteMany(InsertOrIgnore(t, Head(rows)), Tail(rows))

\* ---------------------------------------------------------------- init_db
\* fault: sqlite3 cannot open or write fx.db
InitDbOutcome(exists, fault) ==
    IF fault
    THEN [exc |-> "OperationalError", exists |-> exists, logged |-> <<>>]
    ELSE [exc |-> "none", exists |-> TRUE,
          logged |-> <<"Database setup complete.">>]

\* ---------------------------------------------------------------- save_rates
SaveRatesOutcome(t, exists, base, quotes, date, fault) ==
    IF ~quotes.isMap
    THEN [exc |-> "AttributeError", table |-> t, ret |-> -1, logged |-> <<>>]
    ELSE IF \E i \in 1..Len(quotes.items) : FloatRaises(quotes.items[i].rate)
    THEN [exc |-> "TypeError", table |-> t, ret |-> -1, logged |-> <<>>]
    ELSE IF fault \/ ~exists
    THEN [exc |-> "OperationalError", table |-> t, ret |-> -1, logged |-> <<>>]
    ELSE [exc |-> "none",
          table |-> ExecuteMany(t, BuildRows(base, quotes.items, date)),
          ret |-> Len(quotes.items),
          logged |-> <<"Inserted FX rates">>]

\* ---------------------------------------------------------------- fetch_rates
Fields == {"quotes", "source"}

\* what requests.get meets: no answer (timeout, connection error), an HTTP
\* error status, a body that is not JSON, or a JSON value: an object with
\* some of the fields, an array holding some of the field names, a number
NoQuotes == [isMap |-> FALSE, items |-> <<>>]
Reply(net, kind, fields, source, quotes) ==
    [net |-> net, kind |-> kind, fields |-> fields, source |-> source,
     quotes |-> quotes]
Responses ==
    {Reply(net, "none", {}, <<>>, NoQuotes) : net \in {"down", "status", "notjson"}}
        \cup {Reply("ok", "number", {}, <<>>, NoQuotes)}
        \cup {Reply("ok", "array", f, <<>>, NoQuotes) : f \in SUBSET Fields}
        \cup {Reply("ok", "object", {}, <<>>, NoQuotes)}
        \cup {Reply("ok", "object", {"source"}, b, NoQuotes) : b \in Bases}
        \cup {Reply("ok", "object", {"quotes"}, <<>>, q) : q \in QuoteVals}
        \cup {Reply("ok", "object", Fields, b, q) : b \in Bases, q \in QuoteVals}

\* a mutant of LacksField: `and` in place of `or`
LacksBoth(resp) == \A f \in Fields : f \notin resp.fields

\* `"quotes" not in data or "source" not in data`: membership of keys in a
\* dict and of elements in a list
LacksField(resp) == \E f \in Fields : f \notin resp.fields

\* a mutant of Raises: the success note logged before the checks
RaisesAfterNote(e, http) ==
    [exc |-> e, http |-> http, returned |-> FALSE,
     logged |-> <<"Successfully fetched FX rates">>]

\* fetch_rates raising e, after http requests
Raises(e, http) ==
    [exc |-> e, http |-> http, returned |-> FALSE, logged |-> <<>>]

\* fx.py:65-74: the request, the status check, the parse, the shape check.
\* `in` raises TypeError on a number; data["source"] raises it on a list.
RequestRates(resp) ==
    IF resp.net = "down" THEN Raises("RequestException", 1)
    ELSE IF resp.net = "status" THEN Raises("HTTPError", 1)
    ELSE IF resp.net = "notjson" THEN Raises("JSONDecodeError", 1)
    ELSE IF resp.kind = "number" THEN Raises("TypeError", 1)
    ELSE IF LacksField(resp) THEN Raises("ValueError", 1)
    ELSE IF resp.kind # "object" THEN Raises("TypeError", 1)
    ELSE [exc |-> "none", http |-> 1, returned |-> TRUE,
          logged |-> <<"Successfully fetched FX rates">>]

\* a mutant of FetchRatesOutcome: no credential check before the request
FetchRatesUnchecked(key, resp) == RequestRates(resp)

FetchRatesOutcome(key, resp) ==
    IF key = "" THEN Raises("RuntimeError", 0) ELSE RequestRates(resp)

\* data.get("source", "EUR")
GetSource(resp) == IF "source" \in resp.fields THEN resp.source ELSE <<"E">>

NoCall == [made |-> FALSE]
NoReply == Reply("none", "none", {}, <<>>, NoQuotes)
NoRun == [n |-> 0, apiKey |-> "", today |-> 1, http |-> 0, resp |-> NoReply,
          fetched |-> FALSE, raisedIn |-> "none", exc |-> "none",
          escaped |-> FALSE]

\* `except Exception`: the exceptions the handler of main catches
Exceptions == {"RuntimeError", "RequestException", "HTTPError", "JSONDecodeError",
               "ValueError", "TypeError", "AttributeError", "OperationalError"}

\* a mutant of Caught: a handler for the transport failures alone
CaughtTransport(e) == e \in {"RequestException", "HTTPError"}

Caught(e) == e \in Exceptions

Init ==
    /\ tableExists = FALSE
    /\ table = EmptyBag
    /\ log = <<>>
    /\ out = <<>>
    /\ pc = "idle"
    /\ run = NoRun
    /\ obs = NoCall
    /\ calls = 0

\* ------------------------------------------------- direct calls (the tests)
\* A caller of the module, as src/tests/test_fx.py is: calls of init_db and
\* save_rates with any arguments, one save_rates call of which is observed
\* (its arguments, its outcome and whether the table held rows of its date
\* are kept in obs) and may be repeated once with the same arguments, as
\* test_save_rates_ignores_duplicates does. calls counts the calls that
\* returned. An unobserved call that raises changes nothing, so a storage
\* fault in one is a stuttering step and is not drawn; the observed call is
\* early enough to leave room for its repetition.
InitDb ==
    /\ ~obs.made
    /\ calls < MaxCalls
    /\ \E fault \in BOOLEAN :
         \E r \in {InitDbOutcome(tableExists, fault)} :
         /\ tableExists' = r.exists
         /\ log' = log \o r.logged
         /\ calls' = IF r.exc = "none" THEN calls + 1 ELSE calls
    /\ UNCHANGED <<table, out, pc, run, obs>>

SaveRates ==
    /\ ~obs.made
    /\ calls < MaxCalls
    /\ \E base \in Bases, quotes \in QuoteVals, date \in Dates :
         \E r \in {SaveRatesOutcome(table, tableExists, base, quotes, date, FALSE)} :
         /\ table' = r.table
         /\ log' = log \o r.logged
         /\ calls' = IF r.exc = "none" THEN calls + 1 ELSE calls
    /\ UNCHANGED <<tableExists, out, pc, run, obs>>

SaveRatesObserved ==
    /\ ~obs.made
    /\ calls < MaxCalls - 1
    /\ \E base \in Bases, quotes \in QuoteVals, date \in Dates, fault \in BOOLEAN :
         \E r \in {SaveRatesOutcome(table, tableExists, base, quotes, date, fault)} :
         /\ table' = r.table
         /\ log' = log \o r.logged
         /\ calls' = IF r.exc = "none" THEN calls + 1 ELSE calls
         /\ obs' = [made |-> TRUE, base |-> base, quotes |-> quotes, date |-> date,
                    hadDate |-> \E row \in BagToSet(table) : row.date = date,
                    exc |-> r.exc, ret |-> r.ret, after |-> r.table,
                    again |-> FALSE, fault2 |-> FALSE, exc2 |-> "none"]
    /\ UNCHANGED <<tableExists, out, pc, run>>

SaveRatesAgain ==
    /\ obs.made
    /\ ~obs.again
    /\ obs.exc = "none"
    /\ calls < MaxCalls
    /\ \E fault \in BOOLEAN :
         \E r \in {SaveRatesOutcome(table, tableExists, obs.base, obs.quotes,
                                     obs.date, fault)} :
         /\ table' = r.table
         /\ log' = log \o r.logged
         /\ calls' = IF r.exc = "none" THEN calls + 1 ELSE calls
         /\ obs' = [obs EXCEPT !.again = TRUE, !.fault2 = fault, !.exc2 = r.exc]
    /\ UNCHANGED <<tableExists, out, pc, run>>

Next == InitDb \/ SaveRates \/ SaveRatesObserved \/ SaveRatesAgain

Spec == Init /\ [][Next]_vars

\* ------------------------------------------------------------------- main
\* One run of main per start of the process; pc is the statement main is at.
\* log and out hold what this process has written so far.
MainStart ==
    /\ pc \in {"idle", "done", "raised"}
    /\ run.n < MaxRuns
    /\ \E key \in {"", "key"}, day \in Dates :
         run' = [NoRun EXCEPT !.n = run.n + 1, !.apiKey = key, !.today = day]
    /\ log' = <<"FX ETL STARTED">>
    /\ out' = <<>>
    /\ pc' = "init_db"
    /\ UNCHANGED <<tableExists, table, obs, calls>>

MainInitDb ==
    /\ pc = "init_db"
    /\ \E fault \in BOOLEAN :
         \E r \in {InitDbOutcome(tableExists, fault)} :
         /\ tableExists' = r.exists
         /\ log' = log \o r.logged
         /\ run' = IF r.exc = "none" THEN run
                   ELSE [run EXCEPT !.raisedIn = "init_db", !.exc = r.exc]
         /\ pc' = IF r.exc = "none" THEN "fetch_rates" ELSE "except"
    /\ UNCHANGED <<table, out, obs, calls>>

MainFetchRates ==
    /\ pc = "fetch_rates"
    /\ \E resp \in Responses :
         \E r \in {FetchRatesOutcome(run.apiKey, resp)} :
         /\ log' = log \o r.logged
         /\ run' = IF r.returned
                   THEN [run EXCEPT !.http = @ + r.http, !.resp = resp,
                                    !.fetched = TRUE]
                   ELSE [run EXCEPT !.http = @ + r.http,
                                    !.resp = IF r.http = 0 THEN NoReply ELSE resp,
                                    !.raisedIn = "fetch_rates", !.exc = r.exc]
         /\ pc' = IF r.returned THEN "save_rates" ELSE "except"
    /\ UNCHANGED <<tableExists, table, out, obs, calls>>

\* fx.py:102-109: the arguments taken from data, save_rates, the summary
\* and the success line
MainSaveRates ==
    /\ pc = "save_rates"
    /\ \E fault \in BOOLEAN :
         \E r \in {SaveRatesOutcome(table, tableExists, GetSource(run.resp),
                                     run.resp.quotes, run.today, fault)} :
         /\ table' = r.table
         /\ IF r.exc = "none"
            THEN /\ log' = log \o r.logged \o <<"Saved rates">>
                 /\ out' = Append(out, "FX ETL completed successfully")
                 /\ run' = run
                 /\ pc' = "finally"
            ELSE /\ log' = log \o r.logged
                 /\ out' = out
                 /\ run' = [run EXCEPT !.raisedIn = "save_rates", !.exc = r.exc]
                 /\ pc' = "except"
    /\ UNCHANGED <<tableExists, obs, calls>>

\* fx.py:111-113; an exception the handler does not catch goes on through
\* the finally block and out of main
MainExcept ==
    /\ pc = "except"
    /\ IF Caught(run.exc)
       THEN /\ log' = Append(log, "FX ETL FAILED")
            /\ out' = Append(out, "FX ETL failed")
            /\ run' = run
       ELSE /\ run' = [run EXCEPT !.escaped = TRUE]
            /\ UNCHANGED <<log, out>>
    /\ pc' = "finally"
    /\ UNCHANGED <<tableExists, table, obs, calls>>

\* a mutant of MainFinally: the finish marker written nowhere but at the end
\* of the try block
MainFinallyOnSuccess ==
    /\ pc = "finally"
    /\ log' = IF run.raisedIn = "none" THEN Append(log, "FX ETL FINISHED") ELSE log
    /\ pc' = IF run.escaped THEN "raised" ELSE "done"
    /\ UNCHANGED <<tableExists, table, out, run, obs, calls>>

\* fx.py:115-116, then main returns, or the escaped exception leaves it
MainFinally ==
    /\ pc = "finally"
    /\ log' = Append(log, "FX ETL FINISHED")
    /\ pc' = IF run.escaped THEN "raised" ELSE "done"
    /\ UNCHANGED <<tableExists, table, out, run, obs, calls>>

NextMain ==
    \/ MainStart
    \/ MainInitDb
    \/ MainFetchRates
    \/ MainSaveRates
    \/ MainExcept
    \/ MainFinally

SpecMain == Init /\ [][NextMain]_vars


\* ------------------------------------------------------------ properties
Stored == BagToSet(table)
RowsOf(date) == {r \in Stored : r.date = date}
Occurrences(seq, x) == Cardinality({i \in 1..Len(seq) : seq[i] = x})
Holds(seq, x) == \E i \in 1..Len(seq) : seq[i] = x
\* the entries xs occur in seq in the order given
RECURSIVE InOrder(_, _)
InOrder(seq, xs) ==
    IF xs = <<>> THEN TRUE
    ELSE IF seq = <<>> THEN FALSE
    ELSE IF Head(seq) = Head(xs) THEN InOrder(Tail(seq), Tail(xs))
    ELSE InOrder(Tail(seq), xs)

\* the observed call returned
ObservedOk == obs.made /\ obs.exc = "none"
\* the rows the observed call built
ObservedRows == BuildRows(obs.base, obs.quotes.items, obs.date)
\* a pair key of the documented shape: the base code, then a quote code of
\* the same length
WellFormed(pair, base) ==
    /\ Len(pair) = 2 * Len(base)
    /\ SubSeq(pair, 1, Len(base)) = base
\* the pair key with its leading base code removed
Stripped(pair, base) == SubSeq(pair, Len(base) + 1, Len(pair))

\* C1: fx_rates never holds two rows with the same (date, symbol), whatever
\* init_db and save_rates calls were made.
UniqueDateSymbol ==
    /\ \A r \in Stored : CopiesIn(r, table) = 1
    /\ \A r1, r2 \in Stored :
         (r1.date = r2.date /\ r1.symbol = r2.symbol) => r1 = r2

\* C1 witness: a call whose mapping held two pair keys with one symbol
\* returned and was run again for the same date.
UniqueDateSymbolWitness ==
    /\ ObservedOk
    /\ obs.again /\ obs.exc2 = "none"
    /\ \E i, j \in 1..Len(ObservedRows) :
         i # j /\ ObservedRows[i].symbol = ObservedRows[j].symbol

\* C2: a stored row stays stored, with its base and rate, through every later
\* init_db and save_rates call; the table is never dropped.
RowsNeverChange ==
    [][/\ \A r \in BagToSet(table) : BagIn(r, table')
       /\ tableExists => tableExists']_vars

\* C2 witness: the repeated call carried a row whose rate differs from the
\* rate stored for its date and symbol.
RowsNeverChangeWitness ==
    /\ ObservedOk
    /\ obs.again /\ obs.exc2 = "none"
    /\ \E i \in 1..Len(ObservedRows) : \E r \in Stored :
         /\ r.date = ObservedRows[i].date
         /\ r.symbol = ObservedRows[i].symbol
         /\ r.rate # ObservedRows[i].rate

\* C3: a second save_rates call with the arguments of a first one that
\* returned raises nothing (the storage being available) and leaves the
\* table, rows and row count, as the first call left it.
Idempotent ==
    (ObservedOk /\ obs.again /\ ~obs.fault2) =>
        /\ obs.exc2 = "none"
        /\ table = obs.after
        /\ BagCardinality(table) = BagCardinality(obs.after)

\* C3 witness: a call that stored rows was repeated.
IdempotentWitness ==
    /\ ObservedOk
    /\ obs.again /\ ~obs.fault2
    /\ RowsOf(obs.date) # {}
    /\ Len(obs.quotes.items) = MaxQuotes

\* C4 (as claimed): for every pair key of the documented shape given to a
\* save_rates call that returned, base + symbol is the pair key.
PrefixStripped ==
    ObservedOk =>
        \A i \in 1..Len(obs.quotes.items) :
            WellFormed(obs.quotes.items[i].pair, obs.base) =>
                obs.base \o ObservedRows[i].symbol = obs.quotes.items[i].pair

\* C5 (as claimed): after save_rates returned from a call on a table with no
\* rows of its date, with a mapping of well-formed pair keys, the rows of the
\* date are one per pair key: (date, base, pair key less the base, rate).
OneRowPerPair ==
    (/\ ObservedOk /\ ~obs.again /\ ~obs.hadDate
     /\ \A i \in 1..Len(obs.quotes.items) :
          WellFormed(obs.quotes.items[i].pair, obs.base)) =>
        /\ Cardinality(RowsOf(obs.date)) = Len(obs.quotes.items)
        /\ RowsOf(obs.date) =
             {[date |-> obs.date, base |-> obs.base,
               symbol |-> Stripped(obs.quotes.items[i].pair, obs.base),
               rate |-> Float(obs.quotes.items[i].rate)] :
                  i \in 1..Len(obs.quotes.items)}

\* C6: a run of main that ended logged FX ETL FINISHED once, as its last
\* entry, after FX ETL STARTED, and no run logs it before its end.
FinishedOnceLast ==
    /\ pc \in {"done", "raised"} =>
         /\ Occurrences(log, "FX ETL FINISHED") = 1
         /\ log[Len(log)] = "FX ETL FINISHED"
         /\ log[1] = "FX ETL STARTED"
         /\ Len(log) > 1
    /\ pc \notin {"done", "raised"} => ~Holds(log, "FX ETL FINISHED")

\* C6 witness: a run in which save_rates raised has ended.
FinishedOnceLastWitness ==
    pc = "done" /\ run.raisedIn = "save_rates"

\* C7: no exception leaves main, and a run that ended printed one line: the
\* failure line if a step raised, the success line if all three returned.
OneOutcomeLine ==
    /\ pc # "raised"
    /\ pc = "done" =>
         /\ Len(out) = 1
         /\ (out[1] = "FX ETL failed") <=> (run.raisedIn # "none")
         /\ (out[1] = "FX ETL completed successfully") <=> (run.raisedIn = "none")
    /\ pc \in {"init_db", "fetch_rates", "save_rates", "except"} => out = <<>>

\* C7 witness: a run in which init_db raised has ended.
OneOutcomeLineWitness ==
    pc = "done" /\ run.raisedIn = "init_db" /\ out = <<"FX ETL failed">>

\* C8: without a credential fetch_rates raises the configuration error and
\* the run makes no HTTP request.
NoRequestWithoutKey ==
    (run.n > 0 /\ run.apiKey = "") =>
        /\ run.http = 0
        /\ ~run.fetched
        /\ run.raisedIn = "fetch_rates" => run.exc = "RuntimeError"

\* C8 witness: fetch_rates was called without a credential.
NoRequestWithoutKeyWitness ==
    run.n > 0 /\ run.apiKey = "" /\ run.raisedIn = "fetch_rates"

\* C9: what fetch_rates returns is an object with both fields, and a parsed
\* object lacking one makes it raise ValueError.
BothFieldsOrRaise ==
    /\ run.fetched =>
         /\ run.resp.net = "ok" /\ run.resp.kind = "object"
         /\ Fields \subseteq run.resp.fields
    /\ (/\ run.raisedIn = "fetch_rates" /\ run.http > 0
        /\ run.resp.net = "ok" /\ run.resp.kind = "object"
        /\ ~(Fields \subseteq run.resp.fields)) =>
            (run.exc = "ValueError" /\ ~run.fetched)

\* C9 witness: a response with quotes and no source was received.
BothFieldsOrRaiseWitness ==
    /\ run.raisedIn = "fetch_rates" /\ run.exc = "ValueError"
    /\ run.resp.kind = "object" /\ run.resp.fields = {"quotes"}

SuccessNotes == <<"FX ETL STARTED", "Successfully fetched FX rates",
                  "Inserted FX rates", "Saved rates", "FX ETL FINISHED">>
SuccessfulRunLog ==
    (pc = "done" /\ run.raisedIn = "none") =>
        /\ InOrder(log, SuccessNotes)
        /\ \A i \in 1..Len(SuccessNotes) : Occurrences(log, SuccessNotes[i]) = 1
        /\ ~Holds(log, "FX ETL FAILED")
FailedRunLog ==
    (pc = "done" /\ run.raisedIn # "none") => Holds(log, "FX ETL FAILED")

\* C10 (as claimed): a successful run logs the five notes in order and no
\* error trace; a run whose log holds the error trace holds none of the
\* fetch success note, the insert count note and the save summary.
TraceInsteadOfNotes ==
    /\ SuccessfulRunLog
    /\ FailedRunLog
    /\ Holds(log, "FX ETL FAILED") =>
         /\ ~Holds(log, "Successfully fetched FX rates")
         /\ ~Holds(log, "Inserted FX rates")
         /\ ~Holds(log, "Saved rates")

\* C10 (amended): a successful run logs the five notes in order and no error
\* trace; a run whose log holds the error trace holds neither the insert
\* count note nor the save summary, and holds the fetch success note exactly
\* when it was save_rates that raised.
TraceAfterFetchNote ==
    /\ SuccessfulRunLog
    /\ FailedRunLog
    /\ Holds(log, "FX ETL FAILED") =>
         /\ ~Holds(log, "Inserted FX rates")
         /\ ~Holds(log, "Saved rates")
         /\ Holds(log, "Successfully fetched FX rates")
                <=> (run.raisedIn = "save_rates")

\* C10 witness: a run in which save_rates raised on a null rate has ended,
\* with the fetch success note and the error trace in its log.
TraceAfterFetchNoteWitness ==
    /\ pc = "done" /\ run.raisedIn = "save_rates" /\ run.exc = "TypeError"
    /\ Holds(log, "Successfully fetched FX rates")
    /\ Holds(log, "FX ETL FAILED")

====
